---------------------------- MODULE Spec2Model ----------------------------
(***************************************************************************)
(* A model of merkle_tree.py: the snapshot/diff tool built on a Merkle     *)
(* tree.  Python strings are sequences of code points, bytes objects are   *)
(* sequences of numbers in 0..255, and a dict is the sequence of its       *)
(* <<key, value>> pairs in insertion order (keys unique).                  *)
(***************************************************************************)
EXTENDS Integers, Sequences, FiniteSets, TLC

(* ------------------------------ bounds -------------------------------- *)
\* sha256 yields 32 bytes; the model's digests have DigestLen bytes.
DigestLen == 2
\* number of distinct paths the diff inputs range over
MaxPaths == 3

\* longest relative path (in code points) the leaf encoder is fed
MaxPathLen == 2
\* most entries of a files mapping handed to save_snapshot
MaxFiles == 2
\* most build_snapshot calls over one directory that are compared
MaxBuilds == 2
\* most runs of main() over one directory
MaxRuns == 2
\* most changes the user makes to the directory between runs
MaxEdits == 1

(* ------------------------------- state -------------------------------- *)
VARIABLES
    \* diff(old, new): the arguments, the returned triple, the call's position
    old, new, result, d_pc,
    \* the leaf encoding of build_snapshot for two (path, digest) pairs
    lf_a, lf_b, lf_pa, lf_pb, lf_pc,
    \* save_snapshot(path, root, files_map) then load_snapshot(path): the
    \* arguments, the file at path, what load returned
    st_root, st_files, st_disk, st_ret, st_pc,
    \* build_snapshot(root) called repeatedly over a directory that changes:
    \* the directory (relative path -> content), the digests given out so
    \* far, the previous and the latest call, the number of calls
    b_dir, b_oracle, b_prev, b_cur, b_n,
    \* main(): the scanned directory (relative path -> content of the user's
    \* files), whether snapshot_path lies in it, the file at snapshot_path,
    \* the digests given out so far
    root_dir, snapshot_in_root, snapshot, hashed,
    \* where the run stands, the number of runs and of user edits so far
    pc, runs, edits,
    \* main's locals: tree1 (the appended leaves), tree1.get_state().hex(),
    \* files_map1, tree0, files_map0, the tokens save_snapshot has yet to write
    tree1, state1, files_map1, tree0, files_map0, pending,
    \* what the run printed about the comparison, the triple diff returned,
    \* the exit status, the exception that ended the run
    report, changes, exit, raised,
    \* the file at snapshot_path when the run started, how the previous run
    \* ended, whether the user edited since the last start / before this run
    snapshot0, prev_run, edited, dirty

diffVars == <<old, new, result, d_pc>>

leafVars == <<lf_a, lf_b, lf_pa, lf_pb, lf_pc>>

storeVars == <<st_root, st_files, st_disk, st_ret, st_pc>>

buildVars == <<b_dir, b_oracle, b_prev, b_cur, b_n>>

mainVars ==
    <<root_dir, snapshot_in_root, snapshot, hashed, pc, runs, edits,
      tree1, state1, files_map1, tree0, files_map0, pending,
      report, changes, exit, raised, snapshot0, prev_run, edited, dirty>>

vars == <<diffVars, leafVars, storeVars, buildVars, mainVars>>

\* what each specification leaves alone
notDiff == <<leafVars, storeVars, buildVars, mainVars>>

notLeaf == <<diffVars, storeVars, buildVars, mainVars>>

notStore == <<diffVars, leafVars, buildVars, mainVars>>

notBuild == <<diffVars, leafVars, storeVars, mainVars>>

notMain == <<diffVars, leafVars, storeVars, buildVars>>

\* a component that takes no part in the specification at hand
DiffOff == old = <<>> /\ new = <<>> /\ result = <<>> /\ d_pc = "off"

LeafOff == lf_a = <<>> /\ lf_b = <<>> /\ lf_pa = <<>> /\ lf_pb = <<>> /\ lf_pc = "off"

StoreOff ==
    /\ st_root = <<>> /\ st_files = <<>> /\ st_disk = <<>> /\ st_ret = <<>>
    /\ st_pc = "off"

BuildOff ==
    /\ b_dir = <<>> /\ b_oracle = <<>> /\ b_prev = <<>> /\ b_cur = <<>> /\ b_n = 0

MainOff ==
    /\ root_dir = <<>> /\ snapshot_in_root = FALSE /\ snapshot = <<>>
    /\ hashed = <<>> /\ pc = "off" /\ runs = 0 /\ edits = 0
    /\ tree1 = <<>> /\ state1 = <<>> /\ files_map1 = <<>>
    /\ tree0 = <<>> /\ files_map0 = <<>> /\ pending = <<>>
    /\ report = "" /\ changes = <<>> /\ exit = "" /\ raised = ""
    /\ snapshot0 = <<>> /\ prev_run = <<>> /\ edited = FALSE /\ dirty = FALSE

(* --------------------------- sequences, dicts ------------------------- *)
Range(s) == {s[i] : i \in DOMAIN s}

Min(a, b) == IF a < b THEN a ELSE b

\* Python's str comparison: lexicographic by code point.
LexLess(a, b) ==
    \E i \in 1..(Min(Len(a), Len(b)) + 1) :
        /\ \A j \in 1..(i - 1) : a[j] = b[j]
        /\ \/ i = Len(a) + 1 /\ i <= Len(b)
           \/ i <= Len(a) /\ i <= Len(b) /\ a[i] < b[i]

Keys(d) == [i \in DOMAIN d |-> d[i][1]]

Has(d, k) == \E i \in DOMAIN d : d[i][1] = k

Get(d, k) == d[CHOOSE i \in DOMAIN d : d[i][1] = k][2]

\* d[k] = v : a new key goes last, an existing key keeps its position.
Put(d, k, v) ==
    IF Has(d, k)
    THEN [i \in DOMAIN d |-> IF d[i][1] = k THEN <<k, v>> ELSE d[i]]
    ELSE Append(d, <<k, v>>)

IsDict(d) == \A i, j \in DOMAIN d : d[i][1] = d[j][1] => i = j

(* ------------------------------- digests ------------------------------ *)
\* The i-th distinct digest value: distinct i give distinct byte strings.
DigestOf(i) == [j \in 1..DigestLen |-> (7 * i + 11 * (j - 1)) % 256]

\* Hashing is collision-free: an oracle keeps, in the order they were first
\* hashed, the file contents (oracle.file) and the leaf sequences
\* (oracle.tree) hashed so far, and equal inputs get equal digests.
NoOracle == [file |-> <<>>, tree |-> <<>>]

Learn(seen, x) == IF \E i \in DOMAIN seen : seen[i] = x THEN seen ELSE Append(seen, x)

IndexOf(seen, x) == CHOOSE i \in DOMAIN seen : seen[i] = x

\* file bytes of a user's file with content number c
Raw(c) == <<<<"raw", <<c>>>>>>

(* ------------------------------ encodings ---------------------------- *)
\* str.encode(): UTF-8 of one code point, then of a string
utf8(c) ==
    IF c < 128 THEN <<c>>
    ELSE IF c < 2048 THEN <<192 + (c \div 64), 128 + (c % 64)>>
    ELSE <<224 + (c \div 4096), 128 + ((c \div 64) % 64), 128 + (c % 64)>>

RECURSIVE encode(_)
encode(s) == IF s = <<>> THEN <<>> ELSE utf8(Head(s)) \o encode(Tail(s))

\* b"::"
Separator == <<58, 58>>

leaf_payload_without_digest(relative_path, digest) ==
    encode(relative_path) \o Separator

\* relative_path.encode() + b"::" + digest
leaf_payload(relative_path, digest) ==
    encode(relative_path) \o Separator \o digest

(* --------------------------- build_snapshot --------------------------- *)
file_digest_of_nothing(content, oracle) ==
    LET seen == Learn(oracle.file, <<>>)
    IN  [digest |-> DigestOf(2 * IndexOf(seen, <<>>)),
         oracle |-> [oracle EXCEPT !.file = seen]]

\* hashlib.sha256(file_path.read_bytes()).digest()
file_digest(content, oracle) ==
    LET seen == Learn(oracle.file, content)
    IN  [digest |-> DigestOf(2 * IndexOf(seen, content)),
         oracle |-> [oracle EXCEPT !.file = seen]]

\* tree.get_state(): the root hash of the leaves appended so far
get_state(tree, oracle) ==
    LET seen == Learn(oracle.tree, tree)
    IN  [digest |-> DigestOf(2 * IndexOf(seen, tree) + 1),
         oracle |-> [oracle EXCEPT !.tree = seen]]

\* the place of x in a sorted list: after every element not greater than it
RECURSIVE Insert(_, _)
Insert(x, sorted) ==
    IF sorted = <<>> THEN <<x>>
    ELSE IF LexLess(x, Head(sorted)) THEN <<x>> \o sorted
    ELSE <<Head(sorted)>> \o Insert(x, Tail(sorted))

RECURSIVE InsertAll(_, _)
InsertAll(files, sorted) ==
    IF files = <<>> THEN sorted
    ELSE InsertAll(Tail(files), Insert(Head(files), sorted))

sort_skipped(files) == files

\* files.sort(key=lambda p: str(p.relative_to(root)))
sort(files) == InsertAll(files, <<>>)

\* the for loop of build_snapshot
RECURSIVE BuildLoop(_, _, _, _, _)
BuildLoop(files, dir, files_map, tree, oracle) ==
    IF files = <<>>
    THEN [tree |-> tree, files_map |-> files_map, oracle |-> oracle]
    ELSE LET relative_path == Head(files)
             h == file_digest(dir[relative_path], oracle)
         IN  BuildLoop(Tail(files), dir,
                       Put(files_map, relative_path, h.digest),
                       Append(tree, leaf_payload(relative_path, h.digest)),
                       h.oracle)

\* build_snapshot(root), for the directory dir (relative path -> content of
\* the regular files outside .git) that rglob lists in the order listing
build_snapshot(dir, listing, oracle) ==
    BuildLoop(sort(listing), dir, <<>>, <<>>, oracle)

\* the orders in which rglob may list the files of a directory
Listings(dir) ==
    {l \in [1..Cardinality(DOMAIN dir) -> DOMAIN dir] : Range(l) = DOMAIN dir}

(* --------------------------------- hex -------------------------------- *)
\* the lowercase hexadecimal digit of n in 0..15, as a code point
HexChar(n) == IF n < 10 THEN 48 + n ELSE 87 + n

\* the value of a hexadecimal digit, -1 for any other code point
HexVal(c) ==
    IF c >= 48 /\ c <= 57 THEN c - 48
    ELSE IF c >= 97 /\ c <= 102 THEN c - 87
    ELSE IF c >= 65 /\ c <= 70 THEN c - 55
    ELSE 0 - 1

RECURSIVE hex_unpadded(_)
hex_unpadded(b) ==
    IF b = <<>> THEN <<>>
    ELSE (IF Head(b) < 16 THEN <<HexChar(Head(b))>>
          ELSE <<HexChar(Head(b) \div 16), HexChar(Head(b) % 16)>>)
         \o hex_unpadded(Tail(b))

\* bytes.hex(): two lowercase digits per byte
RECURSIVE hex(_)
hex(b) ==
    IF b = <<>> THEN <<>>
    ELSE <<HexChar(Head(b) \div 16), HexChar(Head(b) % 16)>> \o hex(Tail(b))

IsSpace(c) == c \in {32, 9, 10, 11, 12, 13}

\* bytes.fromhex(): ASCII whitespace between bytes is skipped; anything but
\* pairs of hexadecimal digits raises ValueError
RECURSIVE fromhex(_)
fromhex(s) ==
    IF s = <<>> THEN [ok |-> TRUE, val |-> <<>>]
    ELSE IF IsSpace(Head(s)) THEN fromhex(Tail(s))
    ELSE IF Len(s) >= 2 /\ HexVal(s[1]) >= 0 /\ HexVal(s[2]) >= 0
         THEN LET rest == fromhex(Tail(Tail(s)))
              IN  IF rest.ok
                  THEN [ok |-> TRUE,
                        val |-> <<16 * HexVal(s[1]) + HexVal(s[2])>> \o rest.val]
                  ELSE rest
         ELSE [ok |-> FALSE, val |-> <<>>]

(* -------------------------------- JSON -------------------------------- *)
\* A JSON value is <<"str", code points>> or <<"obj", dict of JSON values>>.
\* A JSON text is a sequence of tokens <<"{">>, <<"}">> and
\* <<"str", the escaped characters between the quotes>>.
JStr(s) == <<"str", s>>

JObj(d) == <<"obj", d>>

\* json.dump's default ensure_ascii=True escaping of one character
EscapeChar(c) ==
    IF c = 34 THEN <<92, 34>>
    ELSE IF c = 92 THEN <<92, 92>>
    ELSE IF c = 10 THEN <<92, 110>>
    ELSE IF c = 13 THEN <<92, 114>>
    ELSE IF c = 9 THEN <<92, 116>>
    ELSE IF c = 8 THEN <<92, 98>>
    ELSE IF c = 12 THEN <<92, 102>>
    ELSE IF c >= 32 /\ c <= 126 THEN <<c>>
    ELSE <<92, 117, HexChar(c \div 4096), HexChar((c \div 256) % 16),
           HexChar((c \div 16) % 16), HexChar(c % 16)>>

RECURSIVE Escape(_)
Escape(s) == IF s = <<>> THEN <<>> ELSE EscapeChar(Head(s)) \o Escape(Tail(s))

\* the character a short escape \x stands for, -1 if there is none
ShortEscape(x) ==
    IF x \in {34, 92, 47} THEN x
    ELSE IF x = 110 THEN 10
    ELSE IF x = 114 THEN 13
    ELSE IF x = 116 THEN 9
    ELSE IF x = 98 THEN 8
    ELSE IF x = 102 THEN 12
    ELSE 0 - 1

\* json.load's decoding of the characters between the quotes
RECURSIVE Unescape(_)
Unescape(e) ==
    IF e = <<>> THEN [ok |-> TRUE, val |-> <<>>]
    ELSE IF Head(e) = 34 \/ Head(e) < 32 THEN [ok |-> FALSE, val |-> <<>>]
    ELSE IF Head(e) # 92
         THEN LET rest == Unescape(Tail(e))
              IN  IF rest.ok THEN [ok |-> TRUE, val |-> <<Head(e)>> \o rest.val]
                  ELSE rest
    ELSE IF Len(e) >= 2 /\ ShortEscape(e[2]) >= 0
         THEN LET rest == Unescape(SubSeq(e, 3, Len(e)))
              IN  IF rest.ok
                  THEN [ok |-> TRUE, val |-> <<ShortEscape(e[2])>> \o rest.val]
                  ELSE rest
    ELSE IF Len(e) >= 6 /\ e[2] = 117 /\ \A i \in 3..6 : HexVal(e[i]) >= 0
         THEN LET rest == Unescape(SubSeq(e, 7, Len(e)))
              IN  IF rest.ok
                  THEN [ok |-> TRUE,
                        val |-> <<4096 * HexVal(e[3]) + 256 * HexVal(e[4])
                                  + 16 * HexVal(e[5]) + HexVal(e[6])>> \o rest.val]
                  ELSE rest
    ELSE [ok |-> FALSE, val |-> <<>>]

\* json.dump(obj, f): the tokens written, in order
RECURSIVE dumps(_)
RECURSIVE dumps_items(_)
dumps_items(d) ==
    IF d = <<>> THEN <<>>
    ELSE <<<<"str", Escape(Head(d)[1])>>>> \o dumps(Head(d)[2]) \o dumps_items(Tail(d))

dumps(v) ==
    IF v[1] = "str" THEN <<<<"str", Escape(v[2])>>>>
    ELSE <<<<"{">>>> \o dumps_items(v[2]) \o <<<<"}">>>>

ParseError == [ok |-> FALSE, val |-> <<>>, next |-> 0]

\* json.load(f): the value at token i and the index after it
RECURSIVE ParseValue(_, _)
RECURSIVE ParseMembers(_, _, _)
ParseMembers(toks, i, acc) ==
    IF i > Len(toks) THEN ParseError
    ELSE IF toks[i] = <<"}">> THEN [ok |-> TRUE, val |-> JObj(acc), next |-> i + 1]
    ELSE IF toks[i][1] # "str" THEN ParseError
    ELSE LET k == Unescape(toks[i][2])
             v == ParseValue(toks, i + 1)
         IN  IF k.ok /\ v.ok THEN ParseMembers(toks, v.next, Put(acc, k.val, v.val))
             ELSE ParseError

ParseValue(toks, i) ==
    IF i > Len(toks) THEN ParseError
    ELSE IF toks[i][1] = "str"
         THEN LET s == Unescape(toks[i][2])
              IN  IF s.ok THEN [ok |-> TRUE, val |-> JStr(s.val), next |-> i + 1]
                  ELSE ParseError
    ELSE IF toks[i] = <<"{">> THEN ParseMembers(toks, i + 1, <<>>)
    ELSE ParseError

\* a complete value followed by nothing, else JSONDecodeError
loads(toks) ==
    LET r == ParseValue(toks, 1)
    IN  IF r.ok /\ r.next = Len(toks) + 1 THEN r ELSE ParseError

(* ---------------------------- snapshot store -------------------------- *)
\* "root" and "files"
KeyRoot == <<114, 111, 111, 116>>

KeyFiles == <<102, 105, 108, 101, 115>>

\* a file on disk: whether it exists, and its text
Absent == [exists |-> FALSE, text |-> <<>>]

File(text) == [exists |-> TRUE, text |-> text]

\* {rel: hh.hex() for rel, hh in files_map.items()}
HexValues(files_map) ==
    [i \in DOMAIN files_map |-> <<files_map[i][1], JStr(hex(files_map[i][2]))>>]

\* the json_data of save_snapshot
SnapshotJson(root, files_map) ==
    JObj(<<<<KeyRoot, JStr(root)>>, <<KeyFiles, JObj(HexValues(files_map))>>>>)

\* the complete text save_snapshot writes
SnapshotText(root, files_map) == dumps(SnapshotJson(root, files_map))

\* save_snapshot, from open to close
save_snapshot(root, files_map) == File(SnapshotText(root, files_map))

\* dict.get(key, default)
JGet(obj, key, default) == IF Has(obj[2], key) THEN Get(obj[2], key) ELSE default

\* {rel: bytes.fromhex(hh) for rel, hh in files_hex.items()}
RECURSIVE FromHexValues(_, _)
FromHexValues(items, acc) ==
    IF items = <<>> THEN [ok |-> TRUE, val |-> acc, error |-> "none"]
    ELSE IF Head(items)[2][1] # "str"
         THEN [ok |-> FALSE, val |-> <<>>, error |-> "TypeError"]
    ELSE LET b == fromhex(Head(items)[2][2])
         IN  IF b.ok THEN FromHexValues(Tail(items), Put(acc, Head(items)[1], b.val))
             ELSE [ok |-> FALSE, val |-> <<>>, error |-> "ValueError"]

Raise(e) == [error |-> e, root |-> JStr(<<>>), files_map |-> <<>>]

\* load_snapshot: the exception raised ("none" on return), root and files_map
load_snapshot(file) ==
    IF ~file.exists THEN Raise("FileNotFoundError")
    ELSE LET json_data == loads(file.text)
         IN  IF ~json_data.ok THEN Raise("JSONDecodeError")
             ELSE IF json_data.val[1] # "obj" THEN Raise("AttributeError")
             ELSE LET root == JGet(json_data.val, KeyRoot, JStr(<<>>))
                      files_hex == JGet(json_data.val, KeyFiles, JObj(<<>>))
                  IN  IF files_hex[1] # "obj" THEN Raise("AttributeError")
                      ELSE LET m == FromHexValues(files_hex[2], <<>>)
                           IN  IF m.ok
                               THEN [error |-> "none", root |-> root,
                                     files_map |-> m.val]
                               ELSE Raise(m.error)

(* -------------------------------- diff -------------------------------- *)
diff_modified_no_compare(o, n) == SelectSeq(Keys(o), LAMBDA p : Has(n, p))

\* [p for p in new.keys() if p not in old.keys()]
diff_added(o, n) == SelectSeq(Keys(n), LAMBDA p : ~Has(o, p))

\* [p for p in old.keys() if p not in new.keys()]
diff_removed(o, n) == SelectSeq(Keys(o), LAMBDA p : ~Has(n, p))

\* [p for p in old.keys() if p in new.keys() and old[p] != new[p]]
diff_modified(o, n) == SelectSeq(Keys(o), LAMBDA p : Has(n, p) /\ Get(o, p) # Get(n, p))

diff(o, n) == <<diff_added(o, n), diff_removed(o, n), diff_modified(o, n)>>

DiffPaths == {<<96 + i>> : i \in 1..MaxPaths}

DiffDigests == {DigestOf(1), DigestOf(2)}

DictsOver(K, V, n) ==
    {d \in UNION {[1..k -> K \X V] : k \in 0..n} : IsDict(d)}

DiffInit ==
    /\ old \in DictsOver(DiffPaths, DiffDigests, MaxPaths)
    /\ new \in DictsOver(DiffPaths, DiffDigests, MaxPaths)
    /\ result = <<>>
    /\ d_pc = "args"
    /\ LeafOff /\ StoreOff /\ BuildOff /\ MainOff

DiffCall ==
    /\ d_pc = "args"
    /\ result' = diff(old, new)
    /\ d_pc' = "returned"
    /\ UNCHANGED <<old, new, notDiff>>

DiffSelf ==
    /\ d_pc = "args"
    /\ result' = diff(old, old)
    /\ new' = old
    /\ d_pc' = "returned"
    /\ UNCHANGED <<old, notDiff>>

DiffNext == DiffCall \/ DiffSelf

SpecDiff == DiffInit /\ [][DiffNext]_vars

NoDup(s) == \A i, j \in DOMAIN s : s[i] = s[j] => i = j

Unchanged(o, n) == {p \in Range(Keys(o)) : Has(n, p) /\ Get(o, p) = Get(n, p)}

\* C1: diff(old, new) returns exactly the paths only in new as added, the
\* paths only in old as removed and the paths in both with unequal digests
\* as modified; the three are pairwise disjoint, every path of old or new is
\* in exactly one of added/removed/modified/unchanged, and diff(old, old)
\* returns three empty results.
C1_DiffPartition ==
    d_pc = "returned" =>
        LET A == Range(result[1])
            R == Range(result[2])
            M == Range(result[3])
            U == Unchanged(old, new)
            O == Range(Keys(old))
            N == Range(Keys(new))
        IN  /\ A = N \ O
            /\ R = O \ N
            /\ M = {p \in O \cap N : Get(old, p) # Get(new, p)}
            /\ NoDup(result[1]) /\ NoDup(result[2]) /\ NoDup(result[3])
            /\ A \cap R = {} /\ A \cap M = {} /\ R \cap M = {}
            /\ \A p \in O \cup N :
                   Cardinality({X \in {<<"a", A>>, <<"r", R>>, <<"m", M>>, <<"u", U>>} :
                                   p \in X[2]}) = 1
            /\ (old = new => result = <<<<>>, <<>>, <<>>>>)

C1_Witness ==
    /\ d_pc = "returned"
    /\ result[1] # <<>> /\ result[2] # <<>> /\ result[3] # <<>>

(* --------------------------- the leaf encoder ------------------------- *)
\* code points of ':' , 'a' and e-acute (two bytes in UTF-8: 195, 169)
LeafChars == {58, 97, 233}

\* digest bytes that also occur in encoded paths
LeafBytes == {58, 169}

LeafPaths == UNION {[1..k -> LeafChars] : k \in 1..MaxPathLen}

LeafDigests == [1..DigestLen -> LeafBytes]

LeafInit ==
    /\ lf_a \in LeafPaths \X LeafDigests
    /\ lf_b \in LeafPaths \X LeafDigests
    /\ lf_pa = <<>> /\ lf_pb = <<>>
    /\ lf_pc = "args"
    /\ DiffOff /\ StoreOff /\ BuildOff /\ MainOff

LeafEncode ==
    /\ lf_pc = "args"
    /\ lf_pa' = leaf_payload(lf_a[1], lf_a[2])
    /\ lf_pb' = leaf_payload(lf_b[1], lf_b[2])
    /\ lf_pc' = "encoded"
    /\ UNCHANGED <<lf_a, lf_b, notLeaf>>

LeafNext == LeafEncode

SpecLeaf == LeafInit /\ [][LeafNext]_vars

\* C6: the leaf payload (UTF-8 path, then "::", then the fixed-length digest)
\* is injective: two (path, digest) pairs that differ in path or in digest,
\* also when the path holds "::" or bytes equal to digest bytes, never give
\* the same payload bytes.
C6_LeafInjective ==
    (lf_pc = "encoded" /\ lf_a # lf_b) => lf_pa # lf_pb

\* two pairs with different paths, one of them holding "::", whose digests
\* hold ':' bytes, have been encoded
C6_Witness ==
    /\ lf_pc = "encoded"
    /\ lf_a[1] # lf_b[1]
    /\ lf_a[1] = <<58, 58>>
    /\ lf_b[1] = <<58>>
    /\ lf_b[2][1] = 58
    /\ Len(lf_pa) = Len(lf_pb) + 1
(* ------------------------ save, then load ----------------------------- *)
\* "a/b", e-acute then a double quote, a backslash then a newline, a snowman
\* then DEL
StorePaths == {<<97, 47, 98>>, <<233, 34>>, <<92, 10>>, <<9731, 127>>}

StoreBytes == {10, 255}

StoreDigests == [1..DigestLen -> StoreBytes]

StoreRoots == {hex(d) : d \in StoreDigests}

StoreInit ==
    /\ st_root \in StoreRoots
    /\ st_files \in DictsOver(StorePaths, StoreDigests, MaxFiles) \ {<<>>}
    /\ st_disk \in {Absent, File(<<>>)}
    /\ st_ret = <<>>
    /\ st_pc = "args"
    /\ DiffOff /\ LeafOff /\ BuildOff /\ MainOff

StoreSave ==
    /\ st_pc = "args"
    /\ st_disk' = save_snapshot(st_root, st_files)
    /\ st_pc' = "saved"
    /\ UNCHANGED <<st_root, st_files, st_ret, notStore>>

StoreLoad ==
    /\ st_pc = "saved"
    /\ st_ret' = load_snapshot(st_disk)
    /\ st_pc' = "loaded"
    /\ UNCHANGED <<st_root, st_files, st_disk, notStore>>

StoreNext == StoreSave \/ StoreLoad

SpecStore == StoreInit /\ [][StoreNext]_vars

\* C2: save_snapshot(path, root, files) followed by load_snapshot(path)
\* returns exactly (root, files) for every root hex string and non-empty
\* mapping: no exception, the same root string, the same keys in the same
\* order, and for every key the same digest bytes.
C2_RoundTrip ==
    st_pc = "loaded" =>
        /\ st_ret.error = "none"
        /\ st_ret.root = JStr(st_root)
        /\ st_ret.files_map = st_files

\* a mapping with a unicode path and a path with characters JSON escapes, and
\* a digest byte below 16, has been saved and loaded
C2_Witness ==
    /\ st_pc = "loaded"
    /\ Has(st_files, <<233, 34>>)
    /\ Has(st_files, <<92, 10>>)
    /\ Get(st_files, <<233, 34>>)[1] = 10
(* ------------------- build_snapshot over a directory ------------------ *)
\* "b", "a/c" and "a": listed in this order they are not sorted
BuildPaths == {<<98>>, <<97, 47, 99>>, <<97>>}

BuildContents == {Raw(1), Raw(2)}

Dirs(paths, contents) == UNION {[D -> contents] : D \in SUBSET paths}

\* the directory after path is written with content
WriteFile(dir, path, content) ==
    [q \in DOMAIN dir \cup {path} |-> IF q = path THEN content ELSE dir[q]]

\* the directory after path is unlinked
RemoveFile(dir, path) == [q \in DOMAIN dir \ {path} |-> dir[q]]

BuildInit ==
    /\ b_dir \in Dirs(BuildPaths, BuildContents)
    /\ b_oracle = NoOracle
    /\ b_prev = <<>>
    /\ b_cur = <<>>
    /\ b_n = 0
    /\ DiffOff /\ LeafOff /\ StoreOff /\ MainOff

\* tree, files_map = build_snapshot(root); tree.get_state()
BuildCall ==
    /\ b_n < MaxBuilds
    /\ \E listing \in Listings(b_dir) :
          LET r == build_snapshot(b_dir, listing, b_oracle)
              st == get_state(r.tree, r.oracle)
          IN  /\ b_cur' = <<[dir |-> b_dir, listing |-> listing, tree |-> r.tree,
                             files_map |-> r.files_map, root |-> st.digest]>>
              /\ b_oracle' = st.oracle
    /\ b_prev' = [i \in DOMAIN b_cur |-> [b_cur[i] EXCEPT !.listing = <<>>]]
    /\ b_n' = b_n + 1
    /\ UNCHANGED <<b_dir, notBuild>>

\* between two calls a file is created or its content replaced
BuildWrite ==
    /\ b_n < MaxBuilds
    /\ \E path \in BuildPaths, content \in BuildContents :
          /\ path \in DOMAIN b_dir => b_dir[path] # content
          /\ b_dir' = WriteFile(b_dir, path, content)
    /\ UNCHANGED <<b_oracle, b_prev, b_cur, b_n, notBuild>>

\* between two calls a file is deleted
BuildRemove ==
    /\ b_n < MaxBuilds
    /\ \E path \in DOMAIN b_dir : b_dir' = RemoveFile(b_dir, path)
    /\ UNCHANGED <<b_oracle, b_prev, b_cur, b_n, notBuild>>

BuildNext == BuildCall \/ BuildWrite \/ BuildRemove

SpecBuild == BuildInit /\ [][BuildNext]_vars

\* C7: for a fixed set of files and contents build_snapshot appends the same
\* leaves in the same order, and gives the same root and files mapping,
\* whatever the order in which the files are listed: one leaf per file, in
\* ascending order of relative path.
C7_OrderIndependent ==
    b_cur # <<>> =>
        LET c == b_cur[1]
            m == c.files_map
        IN  /\ Len(c.tree) = Cardinality(DOMAIN c.dir)
            /\ Len(m) = Cardinality(DOMAIN c.dir)
            /\ Range(Keys(m)) = DOMAIN c.dir
            /\ \A i, j \in DOMAIN m : i < j => LexLess(m[i][1], m[j][1])
            /\ \A i \in DOMAIN m :
                   c.tree[i] = encode(m[i][1]) \o <<58, 58>> \o m[i][2]
            /\ \A i, j \in DOMAIN m :
                   (m[i][2] = m[j][2]) <=> (c.dir[m[i][1]] = c.dir[m[j][1]])
            /\ (b_prev # <<>> /\ b_prev[1].dir = c.dir) =>
                   /\ b_prev[1].tree = c.tree
                   /\ b_prev[1].files_map = m
                   /\ b_prev[1].root = c.root

\* the same three files were built twice, the second time from a listing
\* that is not in ascending order
C7_Witness ==
    /\ b_prev # <<>> /\ b_cur # <<>>
    /\ b_prev[1].dir = b_cur[1].dir
    /\ DOMAIN b_cur[1].dir = BuildPaths
    /\ b_cur[1].listing = <<<<98>>, <<97, 47, 99>>, <<97>>>>

\* the files of directory d that differ in content from those of directory e
ChangedFiles(d, e) == {f \in DOMAIN d \cap DOMAIN e : d[f] # e[f]}

PositionOf(m, k) == CHOOSE i \in DOMAIN m : m[i][1] = k

\* C8: with collision-free digests, when exactly one file's content changes
\* between two build_snapshot calls over the same paths, that file's digest and
\* leaf payload change, the root changes, and every other file keeps its
\* digest, leaf payload and leaf position; and adding one file changes the
\* root.
C8_Sensitivity ==
    (b_prev # <<>> /\ b_cur # <<>>) =>
        LET p == b_prev[1]
            c == b_cur[1]
        IN  /\ \A f \in DOMAIN c.dir :
                   (DOMAIN p.dir = DOMAIN c.dir /\ ChangedFiles(p.dir, c.dir) = {f}) =>
                       /\ Get(p.files_map, f) # Get(c.files_map, f)
                       /\ p.tree[PositionOf(p.files_map, f)]
                              # c.tree[PositionOf(c.files_map, f)]
                       /\ p.root # c.root
                       /\ \A g \in DOMAIN c.dir \ {f} :
                              /\ Get(p.files_map, g) = Get(c.files_map, g)
                              /\ PositionOf(p.files_map, g) = PositionOf(c.files_map, g)
                              /\ p.tree[PositionOf(p.files_map, g)]
                                     = c.tree[PositionOf(c.files_map, g)]
            /\ \A f \in DOMAIN c.dir \ DOMAIN p.dir :
                   (DOMAIN c.dir = DOMAIN p.dir \cup {f} /\ ChangedFiles(p.dir, c.dir) = {}) =>
                       p.root # c.root

\* one of three files changed content between two calls
C8_Witness ==
    /\ b_prev # <<>> /\ b_cur # <<>>
    /\ DOMAIN b_prev[1].dir = BuildPaths
    /\ DOMAIN b_cur[1].dir = BuildPaths
    /\ ChangedFiles(b_prev[1].dir, b_cur[1].dir) = {<<97, 47, 99>>}

\* a file was added between two calls
C8_WitnessAdded ==
    /\ b_prev # <<>> /\ b_cur # <<>>
    /\ DOMAIN b_prev[1].dir = {<<97>>, <<98>>}
    /\ DOMAIN b_cur[1].dir = BuildPaths
    /\ ChangedFiles(b_prev[1].dir, b_cur[1].dir) = {}
(* ------------------------------- main() ------------------------------- *)
\* "a" and "z"
MainPaths == {<<97>>, <<122>>}

MainContents == {Raw(1), Raw(2)}

\* the content of every file before the user's first edit
FirstContents == {Raw(1)}

\* "snapshot.json", the default of --snapshot
SnapshotName == <<115, 110, 97, 112, 115, 104, 111, 116, 46, 106, 115, 111, 110>>

\* None, as the value of tree0
None == <<"none", <<>>>>

\* a hex digest some earlier run could have written
SomeHex == hex(DigestOf(9))

\* texts of a snapshot file that no complete save_snapshot wrote: a
\* truncated object, a JSON string, an object without "root", an object
\* without "files", an object with a digest that is not hex
MalformedTexts ==
    { <<<<"{">>, <<"str", KeyRoot>>>>,
      <<<<"str", <<97>>>>>>,
      dumps(JObj(<<<<KeyFiles, JObj(<<<<<<97>>, JStr(SomeHex)>>>>)>>>>)),
      dumps(JObj(<<<<KeyRoot, JStr(SomeHex)>>>>)),
      dumps(JObj(<<<<KeyRoot, JStr(SomeHex)>>,
                   <<KeyFiles, JObj(<<<<<<97>>, JStr(<<122, 122>>)>>>>)>>>>)) }

\* snapshot_path.exists()
exists_assumed(file) == TRUE

exists(file) == file.exists

\* the truth value of tree0 in "if tree0:"
Truthy(v) == v[1] # "none" /\ v[2] # <<>>

\* the regular files rglob finds under root: the user's files and, when it
\* lies under root, the snapshot file
Scanned ==
    IF snapshot_in_root /\ snapshot.exists
    THEN WriteFile(root_dir, SnapshotName, snapshot.text)
    ELSE root_dir

Running == pc \in {"build", "load", "compare", "open", "write"}

MainInit ==
    /\ root_dir \in Dirs(MainPaths, FirstContents)
    /\ snapshot_in_root \in BOOLEAN
    /\ snapshot \in {Absent} \cup {File(t) : t \in MalformedTexts}
    /\ hashed = NoOracle
    /\ pc = "idle" /\ runs = 0 /\ edits = 0
    /\ tree1 = <<>> /\ state1 = <<>> /\ files_map1 = <<>>
    /\ tree0 = None /\ files_map0 = <<>> /\ pending = <<>>
    /\ report = "" /\ changes = <<>> /\ exit = "" /\ raised = "none"
    /\ snapshot0 = snapshot /\ prev_run = <<>> /\ edited = FALSE /\ dirty = FALSE
    /\ DiffOff /\ LeafOff /\ StoreOff /\ BuildOff

\* the tool is started: python merkle_tree.py <dir> [--snapshot <path>]
Start ==
    /\ pc \in {"idle", "exited"}
    /\ runs < MaxRuns
    /\ pc' = "build"
    /\ runs' = runs + 1
    /\ snapshot0' = snapshot
    /\ prev_run' = IF pc = "idle" THEN <<>> ELSE <<[exit |-> exit, state |-> state1]>>
    /\ dirty' = edited
    /\ edited' = FALSE
    /\ tree1' = <<>> /\ state1' = <<>> /\ files_map1' = <<>>
    /\ tree0' = None /\ files_map0' = <<>> /\ pending' = <<>>
    /\ report' = "" /\ changes' = <<>> /\ exit' = "running" /\ raised' = "none"
    /\ UNCHANGED <<root_dir, snapshot_in_root, snapshot, hashed, edits, notMain>>

\* the run ends with an uncaught exception: traceback, exit status 1
Abort(e) ==
    /\ pc' = "exited"
    /\ exit' = "1"
    /\ raised' = e

\* tree1, files_map1 = build_snapshot(root); tree1.get_state().hex()
Build ==
    /\ pc = "build"
    /\ \E listing \in Listings(Scanned) :
          LET r == build_snapshot(Scanned, listing, hashed)
              st == get_state(r.tree, r.oracle)
          IN  /\ tree1' = r.tree
              /\ files_map1' = r.files_map
              /\ state1' = hex(st.digest)
              /\ hashed' = st.oracle
    /\ pc' = "load"
    /\ UNCHANGED <<root_dir, snapshot_in_root, snapshot, runs, edits, tree0,
                   files_map0, pending, report, changes, exit, raised,
                   snapshot0, prev_run, edited, dirty, notMain>>

\* file_path.read_bytes() raises for some file of the directory
BuildFails ==
    /\ pc = "build"
    /\ DOMAIN Scanned # {}
    /\ Abort("IOError")
    /\ UNCHANGED <<root_dir, snapshot_in_root, snapshot, hashed, runs, edits,
                   tree1, state1, files_map1, tree0, files_map0, pending,
                   report, changes, snapshot0, prev_run, edited, dirty, notMain>>

\* if snapshot_path.exists(): tree0, files_map0 = load_snapshot(snapshot_path)
LoadPrior ==
    /\ pc = "load"
    /\ exists(snapshot)
    /\ load_snapshot(snapshot).error = "none"
    /\ tree0' = load_snapshot(snapshot).root
    /\ files_map0' = load_snapshot(snapshot).files_map
    /\ pc' = "compare"
    /\ UNCHANGED <<root_dir, snapshot_in_root, snapshot, hashed, runs, edits,
                   tree1, state1, files_map1, pending, report, changes, exit,
                   raised, snapshot0, prev_run, edited, dirty, notMain>>

\* load_snapshot raises
LoadRaises ==
    /\ pc = "load"
    /\ exists(snapshot)
    /\ load_snapshot(snapshot).error # "none"
    /\ Abort(load_snapshot(snapshot).error)
    /\ UNCHANGED <<root_dir, snapshot_in_root, snapshot, hashed, runs, edits,
                   tree1, state1, files_map1, tree0, files_map0, pending,
                   report, changes, snapshot0, prev_run, edited, dirty, notMain>>

\* snapshot_path does not exist: tree0, files_map0 stay None
LoadSkipped ==
    /\ pc = "load"
    /\ ~exists(snapshot)
    /\ pc' = "compare"
    /\ UNCHANGED <<root_dir, snapshot_in_root, snapshot, hashed, runs, edits,
                   tree1, state1, files_map1, tree0, files_map0, pending,
                   report, changes, exit, raised, snapshot0, prev_run, edited,
                   dirty, notMain>>

\* if tree0: added, removed, modified = diff(files_map0, files_map1)
Compare ==
    /\ pc = "compare"
    /\ Truthy(tree0)
    /\ changes' = diff(files_map0, files_map1)
    /\ report' = IF diff(files_map0, files_map1) = <<<<>>, <<>>, <<>>>>
                 THEN "no_diff" ELSE "diff"
    /\ pc' = "open"
    /\ UNCHANGED <<root_dir, snapshot_in_root, snapshot, hashed, runs, edits,
                   tree1, state1, files_map1, tree0, files_map0, pending, exit,
                   raised, snapshot0, prev_run, edited, dirty, notMain>>

\* else: print("==  No previous snapshot found")
NoPrevious ==
    /\ pc = "compare"
    /\ ~Truthy(tree0)
    /\ report' = "no_previous"
    /\ pc' = "open"
    /\ UNCHANGED <<root_dir, snapshot_in_root, snapshot, hashed, runs, edits,
                   tree1, state1, files_map1, tree0, files_map0, pending,
                   changes, exit, raised, snapshot0, prev_run, edited, dirty,
                   notMain>>

\* save_snapshot: open(path, "w") creates or truncates the file
SaveOpen ==
    /\ pc = "open"
    /\ snapshot' = File(<<>>)
    /\ pending' = SnapshotText(state1, files_map1)
    /\ pc' = "write"
    /\ UNCHANGED <<root_dir, snapshot_in_root, hashed, runs, edits, tree1,
                   state1, files_map1, tree0, files_map0, report, changes,
                   exit, raised, snapshot0, prev_run, edited, dirty, notMain>>

\* save_snapshot: json.dump writes the text piece by piece
SaveWrite ==
    /\ pc = "write"
    /\ pending # <<>>
    /\ snapshot' = File(Append(snapshot.text, Head(pending)))
    /\ pending' = Tail(pending)
    /\ UNCHANGED <<root_dir, snapshot_in_root, hashed, pc, runs, edits, tree1,
                   state1, files_map1, tree0, files_map0, report, changes,
                   exit, raised, snapshot0, prev_run, edited, dirty, notMain>>

\* save_snapshot returns, main prints the last line and returns
SaveClose ==
    /\ pc = "write"
    /\ pending = <<>>
    /\ pc' = "exited"
    /\ exit' = "0"
    /\ UNCHANGED <<root_dir, snapshot_in_root, snapshot, hashed, runs, edits,
                   tree1, state1, files_map1, tree0, files_map0, pending,
                   report, changes, raised, snapshot0, prev_run, edited, dirty,
                   notMain>>

\* the process is interrupted or killed
Interrupt ==
    /\ Running
    /\ pc' = "exited"
    /\ exit' = "killed"
    /\ raised' = "KeyboardInterrupt"
    /\ UNCHANGED <<root_dir, snapshot_in_root, snapshot, hashed, runs, edits,
                   tree1, state1, files_map1, tree0, files_map0, pending,
                   report, changes, snapshot0, prev_run, edited, dirty, notMain>>

\* between runs the user creates a file or replaces its content
UserWrite ==
    /\ pc \in {"idle", "exited"}
    /\ runs < MaxRuns
    /\ edits < MaxEdits
    /\ \E path \in MainPaths, content \in MainContents :
          /\ path \in DOMAIN root_dir => root_dir[path] # content
          /\ root_dir' = WriteFile(root_dir, path, content)
    /\ edited' = TRUE
    /\ edits' = edits + 1
    /\ UNCHANGED <<snapshot_in_root, snapshot, hashed, pc, runs, tree1, state1,
                   files_map1, tree0, files_map0, pending, report, changes,
                   exit, raised, snapshot0, prev_run, dirty, notMain>>

\* between runs the user deletes a file
UserRemove ==
    /\ pc \in {"idle", "exited"}
    /\ runs < MaxRuns
    /\ edits < MaxEdits
    /\ \E path \in DOMAIN root_dir : root_dir' = RemoveFile(root_dir, path)
    /\ edited' = TRUE
    /\ edits' = edits + 1
    /\ UNCHANGED <<snapshot_in_root, snapshot, hashed, pc, runs, tree1, state1,
                   files_map1, tree0, files_map0, pending, report, changes,
                   exit, raised, snapshot0, prev_run, dirty, notMain>>

Next ==
    \/ Start \/ Build \/ BuildFails
    \/ LoadPrior \/ LoadRaises \/ LoadSkipped
    \/ Compare \/ NoPrevious
    \/ SaveOpen \/ SaveWrite \/ SaveClose
    \/ Interrupt \/ UserWrite \/ UserRemove

Spec == MainInit /\ [][Next]_vars

\* the complete snapshot this run's build_snapshot asks save_snapshot to write
NewSnapshot == File(SnapshotText(state1, files_map1))

\* a snapshot file that exists and whose content is malformed: not JSON, not
\* an object, without a usable (non-empty string) "root", without a "files"
\* object, or with a digest that is not a hex string
Malformed(file) ==
    /\ file.exists
    /\ LET j == loads(file.text)
       IN  \/ ~j.ok
           \/ j.val[1] # "obj"
           \/ ~Has(j.val[2], KeyRoot)
           \/ Get(j.val[2], KeyRoot)[1] # "str"
           \/ Get(j.val[2], KeyRoot)[2] = <<>>
           \/ ~Has(j.val[2], KeyFiles)
           \/ Get(j.val[2], KeyFiles)[1] # "obj"
           \/ \E i \in DOMAIN Get(j.val[2], KeyFiles)[2] :
                 LET hh == Get(j.val[2], KeyFiles)[2][i][2]
                 IN  hh[1] # "str" \/ ~fromhex(hh[2]).ok

\* C3: when the prior snapshot file exists but is malformed, the run ends in
\* an error with non-zero exit, never reports "no previous snapshot found",
\* never reaches the save, and leaves the snapshot file unchanged.
C3_CorruptAborts ==
    (pc # "idle" /\ Malformed(snapshot0)) =>
        /\ report # "no_previous"
        /\ pc \notin {"open", "write"}
        /\ snapshot = snapshot0
        /\ (pc = "exited" => exit # "0")

\* C4: at every point of a run, also after a read failure or an interruption,
\* the snapshot file is the file the run started with (absent or the complete
\* prior snapshot) or the complete new snapshot, never a partial text; and
\* when the run does not finish, it is still the file the run started with.
C4_AllOrNothing ==
    pc # "idle" =>
        /\ snapshot = snapshot0 \/ (state1 # <<>> /\ snapshot = NewSnapshot)
        /\ (pc = "exited" /\ exit # "0") => snapshot = snapshot0

\* C5: when no snapshot file exists at the start of a run, the run raises
\* nothing (short of a read failure or an interruption), loads and compares
\* nothing, reports that no previous snapshot was found, writes a snapshot
\* holding this run's root and path->digest mapping, and exits 0: at the load
\* and at the comparison it is the skipping branch that is enabled.
C5_FirstRun ==
    (pc # "idle" /\ ~snapshot0.exists) =>
        /\ raised \in {"none", "IOError", "KeyboardInterrupt"}
        /\ tree0 = None /\ files_map0 = <<>>
        /\ report \in {"", "no_previous"}
        /\ changes = <<>>
        /\ pc \in {"open", "write"} => report = "no_previous"
        /\ (pc = "exited" /\ raised = "none") =>
               /\ exit = "0"
               /\ report = "no_previous"
               /\ snapshot = NewSnapshot
               /\ load_snapshot(snapshot) =
                      [error |-> "none", root |-> JStr(state1), files_map |-> files_map1]
               /\ ~edited =>
                      /\ Range(Keys(files_map1)) = DOMAIN root_dir
                      /\ \A f \in DOMAIN root_dir :
                             Get(files_map1, f)
                                 = file_digest(root_dir[f], hashed).digest
               /\ state1 = hex(get_state(tree1, hashed).digest)
        /\ pc = "load" => ~exists(snapshot)
        /\ pc = "compare" => ~Truthy(tree0)

\* a first run over a non-empty directory has finished
C5_Witness ==
    /\ pc = "exited" /\ exit = "0"
    /\ runs = 1
    /\ ~snapshot0.exists
    /\ report = "no_previous"
    /\ Len(files_map1) = 2
    /\ snapshot = NewSnapshot

\* C9: a run that completes without error has loaded and compared the prior
\* snapshot, if there was one, before overwriting it, and ends with the
\* snapshot file holding exactly this run's root and path->digest mapping.
C9_PersistLast ==
    (pc = "exited" /\ exit = "0") =>
        /\ snapshot = NewSnapshot
        /\ load_snapshot(snapshot) =
               [error |-> "none", root |-> JStr(state1), files_map |-> files_map1]
        /\ snapshot0.exists => (tree0 # None /\ report \in {"diff", "no_diff"})
        /\ ~snapshot0.exists => report = "no_previous"

\* C10: a successful run that follows a successful run, with no file changed
\* by the user in between, reports no added, removed or modified path and
\* computes the same root as the run before, wherever the snapshot file lies.
C10_RepeatRunClean ==
    (/\ pc = "exited" /\ exit = "0"
     /\ prev_run # <<>> /\ prev_run[1].exit = "0"
     /\ ~dirty) =>
        /\ report = "no_diff"
        /\ changes = <<<<>>, <<>>, <<>>>>
        /\ state1 = prev_run[1].state

=============================================================================
